---- MODULE Spec2Model ----
(***************************************************************************)
(* Connectionless Unix-domain endpoints                                    *)
(* (tcpip/transport/unix/connectionless.go).                               *)
(*                                                                         *)
(* Endpoints are passive objects called by concurrent threads.  Every      *)
(* method of connectionlessEndpoint is a sequence of steps of the calling  *)
(* thread; a step is one block of the method that no other thread can      *)
(* observe half-done (the part before e.Lock(), the acquisition of the     *)
(* lock, a block run under the lock).                                      *)
(*                                                                         *)
(* The embedded baseEndpoint (lock, path, connected, receiver), the        *)
(* message queue and connectedEndpoint live outside connectionless.go;     *)
(* they are modelled at the interface the specification gives them.        *)
(***************************************************************************)
EXTENDS Integers, Sequences, FiniteSets, TLC

\* ------------------------------------------------------------------ bounds
MaxOps == 3          \* calls started in one behaviour
QueueLimit == 2      \* capacity of a receive queue, in messages
NumSenders == 2      \* concurrent senders of SpecSenders

\* ------------------------------------------------------------- vocabulary
\* The caller threads of Spec, and those of SpecSenders.
Threads == {1, 2}
Senders == 1..NumSenders

\* Endpoints 1 and 2 are connectionlessEndpoints; endpoint 3 is a
\* tcpip.Endpoint of another kind, which does not implement
\* ConnectionlessEndpoint.
CLEndpoints == {1, 2}
OtherEndpoints == {3}
Endpoints == CLEndpoints \cup OtherEndpoints

NoPath == ""
Addrs == {"", "a", "b"}            \* tcpip.FullAddress.Addr values given to Bind
Views == {<<7>>, <<8, 9>>}         \* buffer.View payloads
Controls == {"c0"}                 \* tcpip.ControlMessages values
Commits == {"nil", "ok", "fail"}   \* commit == nil, returns nil, returns an error
EventIn == "In"
EventOut == "Out"
Masks == SUBSET {EventIn, EventOut}

ErrNone == "ok"
ErrInvalidEndpointState == "ErrInvalidEndpointState"
ErrConnectionRefused == "ErrConnectionRefused"
ErrNotSupported == "ErrNotSupported"
ErrAlreadyBound == "ErrAlreadyBound"
ErrBadLocalAddress == "ErrBadLocalAddress"
ErrCommit == "ErrCommit"
ErrQueueFull == "ErrQueueFull"
ErrQueueClosed == "ErrQueueClosed"
Panic == "panic"

VARIABLES
    path,       \* path[e]: baseEndpoint.path, "" when unbound
    connected,  \* connected[e]: baseEndpoint.connected, NilConnected or a connectedEndpoint
    receiver,   \* receiver[e]: baseEndpoint.receiver, NilReceiver or a queueReceiver
    lock,       \* lock[e]: the set of threads holding e's mutex, {} when free
    dataList,   \* dataList[q]: the messages pending in queue q, oldest first
    closed,     \* closed[q]: queue q has been closed
    pc,         \* pc[t]: where thread t is in the call it is making
    op,         \* op[t]: the call thread t is making (its arguments)
    local,      \* local[t]: the call's local variables connected and m
    ret,        \* the return made by the last step, NoRet if it made none
    nops,       \* number of calls started
    closeDone,  \* the endpoints on which a call of Close has returned
    binds,      \* binds[e]: how many calls of Bind have succeeded on e
    bindSince,  \* those on which one has since the last Close returned
    wasFull     \* the queues that have refused a message for want of room

vars == <<path, connected, receiver, lock, dataList, closed, pc, op, local, ret, nops, closeDone, binds, bindSince, wasFull>>

\* The queue created for endpoint e by NewConnectionless is named e.
Queues == CLEndpoints
QueueOf(e) == e

\* The nil values of the two interface-typed fields, and the values
\* NewConnectionless and UnidirectionalConnect construct.
NilReceiver == [readQueue |-> 0]
NilConnected == [endpoint |-> 0, writeQueue |-> 0]
QueueReceiver(q) == [readQueue |-> q]
ConnectedEndpoint(e, q) == [endpoint |-> e, writeQueue |-> q]

\* Message{Data, Control, Address}; the zero Address is the empty string.
Message(v, c, a) == [Data |-> v, Control |-> c, Address |-> a]
NoMessage == Message(<<>>, "c0", NoPath)

NoOp == [kind |-> "none", self |-> 0, to |-> 0, addr |-> NoPath, v |-> <<>>,
         c |-> "c0", commit |-> "nil", mask |-> {}, afterClose |-> FALSE]
NoLocal == [connected |-> NilConnected, m |-> NoMessage]
NoRet == [t |-> 0, op |-> NoOp, n |-> 0, err |-> ErrNone, ready |-> {}]

\* The calls a thread can make.  An argument that only the calling thread can
\* see is chosen at the step that first reads it.
LockOps ==
    {[NoOp EXCEPT !.kind = k, !.self = e] : k \in {"Close", "Bind", "Readiness"}, e \in CLEndpoints}
ListenOps == {[NoOp EXCEPT !.kind = "Listen", !.self = e] : e \in CLEndpoints}
AcceptOps == {[NoOp EXCEPT !.kind = "Accept", !.self = e] : e \in CLEndpoints}
SendOps ==
    {[NoOp EXCEPT !.kind = "SendMsgTo", !.self = e, !.to = to] :
        e \in CLEndpoints, to \in Endpoints}
ConnectOps ==
    {[NoOp EXCEPT !.kind = "ConnectEndpoint", !.self = e, !.to = to] :
        e \in CLEndpoints, to \in Endpoints}

\* --------------------------------------------------------- collaborators

\* baseEndpoint.Connected: a default peer is stored.
Connected(e) == connected[e] # NilConnected

\* queue.Queue.Enqueue through connectedEndpoint.Send: ok, full or closed,
\* never a partial enqueue.
SendResult(q) ==
    IF closed[q] THEN ErrQueueClosed
    ELSE IF Len(dataList[q]) >= QueueLimit THEN ErrQueueFull
    ELSE ErrNone

Enqueue(q, m) ==
    IF SendResult(q) = ErrNone THEN [dataList EXCEPT ![q] = Append(@, m)] ELSE dataList

\* connectedEndpoint.Writable: the target queue has room right now.
Writable(h) == Len(dataList[h.writeQueue]) < QueueLimit

\* queueReceiver.Readable: the queue has data.
Readable(r) == Len(dataList[r.readQueue]) > 0

\* queueReceiver.CloseRecv: close the queue.
CloseRecv(r) == [closed EXCEPT ![r.readQueue] = TRUE]

\* Mutant: the mutex excludes nobody.
LockFreeAlways(e) == TRUE

\* sync.Mutex
LockFree(e) == lock[e] = {}
Acquire(e, t) == [lock EXCEPT ![e] = {t}]
Release(e, t) == [lock EXCEPT ![e] = @ \ {t}]

\* ------------------------------------------------------------------- Init

\* NewConnectionless: unbound, no peer, a fresh open receive queue.
Init ==
    /\ path = [e \in CLEndpoints |-> NoPath]
    /\ connected = [e \in CLEndpoints |-> NilConnected]
    /\ receiver = [e \in CLEndpoints |-> QueueReceiver(e)]
    /\ lock = [e \in CLEndpoints |-> {}]
    /\ dataList = [q \in Queues |-> <<>>]
    /\ closed = [q \in Queues |-> FALSE]
    /\ pc = [t \in Threads |-> "idle"]
    /\ op = [t \in Threads |-> NoOp]
    /\ local = [t \in Threads |-> NoLocal]
    /\ ret = NoRet
    /\ nops = 0
    /\ closeDone = {}
    /\ binds = [e \in CLEndpoints |-> 0]
    /\ bindSince = {}
    /\ wasFull = {}

\* A panic that nothing recovers ends the program.
Crashed == ret.err = Panic

\* ------------------------------------------------------- call and return

\* Thread t is at step l of its call, in a program that is still running.
At(t, l) == ~Crashed /\ pc[t] = l

\* Thread t starts a call.
Start(t) ==
    /\ At(t, "idle")
    /\ nops < MaxOps
    /\ nops' = nops + 1

\* Thread t's call o returns (n, err), or the mask ready.
Return(t, o, n, err, ready) ==
    /\ pc' = [pc EXCEPT ![t] = "idle"]
    /\ op' = [op EXCEPT ![t] = NoOp]
    /\ local' = [local EXCEPT ![t] = NoLocal]
    /\ ret' = [t |-> t, op |-> o, n |-> n, err |-> err, ready |-> ready]

\* Thread t goes on to step l of its call.
Goto(t, l) ==
    /\ pc' = [pc EXCEPT ![t] = l]
    /\ ret' = NoRet

\* Thread t calls o, a method that starts with e.Lock().  afterClose notes
\* whether a Close of the endpoint had returned when the call was made.
Call(t, o) ==
    /\ Start(t)
    /\ op' = [op EXCEPT ![t] = [o EXCEPT !.afterClose = (o.self \in closeDone)]]
    /\ Goto(t, o.kind)
    /\ UNCHANGED <<path, connected, receiver, lock, dataList, closed, local, closeDone, binds, bindSince, wasFull>>

\* ------------------------------------------------------------------ Close

\* isBound: the endpoint is bound iff its path is not the empty string.
isBound(e) == path[e] # NoPath

\* With a peer stored and a nil receiver, e.receiver.CloseRecv() is a call
\* on a nil interface: it panics, and the deferred Unlock runs.
ClosePanics(e) == Connected(e) /\ receiver[e] = NilReceiver

\* Mutant: Close also closes the queue the default peer refers to.
ClosePeerToo(t) ==
    LET e == op[t].self IN
    /\ At(t, "Close")
    /\ LockFree(e)
    /\ ~ClosePanics(e)
    /\ IF Connected(e)
         THEN /\ closed' = [closed EXCEPT ![receiver[e].readQueue] = TRUE,
                                          ![connected[e].writeQueue] = TRUE]
              /\ receiver' = [receiver EXCEPT ![e] = NilReceiver]
              /\ connected' = [connected EXCEPT ![e] = NilConnected]
         ELSE UNCHANGED <<closed, receiver, connected>>
    /\ path' = [path EXCEPT ![e] = IF isBound(e) THEN NoPath ELSE @]
    /\ closeDone' = closeDone \cup {e}
    /\ bindSince' = bindSince \ {e}
    /\ Return(t, op[t], 0, ErrNone, {})
    /\ UNCHANGED <<lock, dataList, nops, binds, wasFull>>

\* Mutant: Close does not unbind.
CloseKeepsPath(t) ==
    LET e == op[t].self IN
    /\ At(t, "Close")
    /\ LockFree(e)
    /\ ~ClosePanics(e)
    /\ IF Connected(e)
         THEN /\ closed' = CloseRecv(receiver[e])
              /\ receiver' = [receiver EXCEPT ![e] = NilReceiver]
              /\ connected' = [connected EXCEPT ![e] = NilConnected]
         ELSE UNCHANGED <<closed, receiver, connected>>
    /\ closeDone' = closeDone \cup {e}
    /\ bindSince' = bindSince \ {e}
    /\ Return(t, op[t], 0, ErrNone, {})
    /\ UNCHANGED <<path, lock, dataList, nops, binds, wasFull>>

\* Close, from e.Lock() to the deferred e.Unlock().  The receiver is closed
\* and dropped, and the peer dropped, only inside `if e.Connected()`.
Close(t) ==
    LET e == op[t].self IN
    /\ At(t, "Close")
    /\ LockFree(e)
    /\ IF ClosePanics(e)
         THEN /\ Return(t, op[t], 0, Panic, {})
              /\ UNCHANGED <<path, connected, receiver, closed, closeDone, binds, bindSince, wasFull>>
         ELSE /\ IF Connected(e)
                   THEN /\ closed' = CloseRecv(receiver[e])
                        /\ receiver' = [receiver EXCEPT ![e] = NilReceiver]
                        /\ connected' = [connected EXCEPT ![e] = NilConnected]
                   ELSE UNCHANGED <<closed, receiver, connected>>
              /\ path' = [path EXCEPT ![e] = IF isBound(e) THEN NoPath ELSE @]
              /\ closeDone' = closeDone \cup {e}
              /\ bindSince' = bindSince \ {e}
              /\ binds' = binds
              /\ Return(t, op[t], 0, ErrNone, {})
    /\ UNCHANGED <<lock, dataList, nops, wasFull>>

\* -------------------------------------------------- UnidirectionalConnect

\* e.receiver.(*queueReceiver): a single-value type assertion, which panics
\* on a nil interface.  The field is read without e's lock.
UnidirectionalConnectPanics(e) == receiver[e] = NilReceiver

UnidirectionalConnect(e) == ConnectedEndpoint(e, receiver[e].readQueue)

\* to.(ConnectionlessEndpoint): the comma-ok type assertion.
IsConnectionless(to) == to \in CLEndpoints

\* -------------------------------------------------------------- SendMsgTo

\* The part of SendMsgTo before e.Lock(): the cast, and the Peer Handle
\* minted from the destination.
SendCastFail(t, o) ==
    /\ Start(t)
    /\ ~IsConnectionless(o.to)
    /\ Return(t, o, 0, ErrInvalidEndpointState, {})
    /\ UNCHANGED <<path, connected, receiver, lock, dataList, closed, closeDone, binds, bindSince, wasFull>>

SendCastPanic(t, o) ==
    /\ Start(t)
    /\ IsConnectionless(o.to)
    /\ UnidirectionalConnectPanics(o.to)
    /\ Return(t, o, 0, Panic, {})
    /\ UNCHANGED <<path, connected, receiver, lock, dataList, closed, closeDone, binds, bindSince, wasFull>>

SendCast(t, o) ==
    /\ Start(t)
    /\ IsConnectionless(o.to)
    /\ ~UnidirectionalConnectPanics(o.to)
    /\ op' = [op EXCEPT ![t] = o]
    /\ local' = [local EXCEPT ![t].connected = UnidirectionalConnect(o.to)]
    /\ Goto(t, "SendLock")
    /\ UNCHANGED <<path, connected, receiver, lock, dataList, closed, closeDone, binds, bindSince, wasFull>>

\* m := Message{Data: v, Control: c}, with the Address when bound.
BuildMessage(e, v, c) == Message(v, c, IF isBound(e) THEN path[e] ELSE NoPath)

\* e.Lock() and the construction of m under it.
SendLock(t, v, c) ==
    LET e == op[t].self IN
    /\ At(t, "SendLock")
    /\ LockFree(e)
    /\ lock' = Acquire(e, t)
    /\ op' = [op EXCEPT ![t].v = v, ![t].c = c]
    /\ local' = [local EXCEPT ![t].m = BuildMessage(e, v, c)]
    /\ Goto(t, "SendSend")
    /\ UNCHANGED <<path, connected, receiver, dataList, closed, nops, closeDone, binds, bindSince, wasFull>>

\* Mutant: the byte count of a success is one short.
SendMsgToReturnShort(v, err) == IF err # ErrNone THEN 0 ELSE Len(v) - 1

\* What SendMsgTo returns with Send's result: (0, err) or (len(v), nil).
SendMsgToReturn(v, err) == IF err # ErrNone THEN 0 ELSE Len(v)

\* Mutant: the enqueue is not atomic; it writes back a queue that misses
\* the messages pending when it started.
SendSendLost(t) ==
    LET q == local[t].connected.writeQueue
        err == SendResult(q) IN
    /\ At(t, "SendSend")
    /\ dataList' = [dataList EXCEPT ![q] = IF err = ErrNone THEN <<local[t].m>> ELSE @]
    /\ lock' = Release(op[t].self, t)
    /\ wasFull' = IF err = ErrQueueFull THEN wasFull \cup {q} ELSE wasFull
    /\ Return(t, op[t], SendMsgToReturn(op[t].v, err), err, {})
    /\ UNCHANGED <<path, connected, receiver, closed, nops, closeDone, binds, bindSince>>

\* Mutant: the message goes to the front of the queue.
SendSendFront(t) ==
    LET q == local[t].connected.writeQueue
        err == SendResult(q) IN
    /\ At(t, "SendSend")
    /\ dataList' = [dataList EXCEPT ![q] = IF err = ErrNone THEN <<local[t].m>> \o @ ELSE @]
    /\ lock' = Release(op[t].self, t)
    /\ wasFull' = IF err = ErrQueueFull THEN wasFull \cup {q} ELSE wasFull
    /\ Return(t, op[t], SendMsgToReturn(op[t].v, err), err, {})
    /\ UNCHANGED <<path, connected, receiver, closed, nops, closeDone, binds, bindSince>>

\* Mutant: the message is enqueued whether the queue has room or not.
SendSendUnbounded(t) ==
    LET q == local[t].connected.writeQueue
        err == IF closed[q] THEN ErrQueueClosed ELSE ErrNone IN
    /\ At(t, "SendSend")
    /\ dataList' = [dataList EXCEPT ![q] = IF err = ErrNone THEN Append(@, local[t].m) ELSE @]
    /\ lock' = Release(op[t].self, t)
    /\ wasFull' = IF err = ErrQueueFull THEN wasFull \cup {q} ELSE wasFull
    /\ Return(t, op[t], SendMsgToReturn(op[t].v, err), err, {})
    /\ UNCHANGED <<path, connected, receiver, closed, nops, closeDone, binds, bindSince>>

\* connected.Send(&m), the return and the deferred Unlock.
SendSend(t) ==
    LET q == local[t].connected.writeQueue
        err == SendResult(q) IN
    /\ At(t, "SendSend")
    /\ dataList' = Enqueue(q, local[t].m)
    /\ lock' = Release(op[t].self, t)
    /\ wasFull' = IF err = ErrQueueFull THEN wasFull \cup {q} ELSE wasFull
    /\ Return(t, op[t], SendMsgToReturn(op[t].v, err), err, {})
    /\ UNCHANGED <<path, connected, receiver, closed, nops, closeDone, binds, bindSince>>

\* -------------------------------------------------------- ConnectEndpoint

\* Mutant: a refused connect drops the peer stored before.
ConnCastFailDrops(t, o) ==
    /\ Start(t)
    /\ ~IsConnectionless(o.to)
    /\ connected' = [connected EXCEPT ![o.self] = NilConnected]
    /\ Return(t, o, 0, ErrConnectionRefused, {})
    /\ UNCHANGED <<path, receiver, lock, dataList, closed, closeDone, binds, bindSince, wasFull>>

\* server.(ConnectionlessEndpoint) fails: the connect is refused.
ConnCastFail(t, o) ==
    /\ Start(t)
    /\ ~IsConnectionless(o.to)
    /\ Return(t, o, 0, ErrConnectionRefused, {})
    /\ UNCHANGED <<path, connected, receiver, lock, dataList, closed, closeDone, binds, bindSince, wasFull>>

ConnCastPanic(t, o) ==
    /\ Start(t)
    /\ IsConnectionless(o.to)
    /\ UnidirectionalConnectPanics(o.to)
    /\ Return(t, o, 0, Panic, {})
    /\ UNCHANGED <<path, connected, receiver, lock, dataList, closed, closeDone, binds, bindSince, wasFull>>

ConnCast(t, o) ==
    /\ Start(t)
    /\ IsConnectionless(o.to)
    /\ ~UnidirectionalConnectPanics(o.to)
    /\ op' = [op EXCEPT ![t] = o]
    /\ local' = [local EXCEPT ![t].connected = UnidirectionalConnect(o.to)]
    /\ Goto(t, "ConnLock")
    /\ UNCHANGED <<path, connected, receiver, lock, dataList, closed, closeDone, binds, bindSince, wasFull>>

\* Mutant: the connect is bidirectional; the target gets the caller as peer.
ConnStoreBoth(t) ==
    LET e == op[t].self IN
    /\ At(t, "ConnLock")
    /\ LockFree(e)
    /\ connected' = [connected EXCEPT ![e] = local[t].connected,
                                      ![op[t].to] = ConnectedEndpoint(e, QueueOf(e))]
    /\ Return(t, op[t], 0, ErrNone, {})
    /\ UNCHANGED <<path, receiver, lock, dataList, closed, nops, closeDone, binds, bindSince, wasFull>>

\* e.Lock(); e.connected = connected; e.Unlock(); return nil
ConnStore(t) ==
    LET e == op[t].self IN
    /\ At(t, "ConnLock")
    /\ LockFree(e)
    /\ connected' = [connected EXCEPT ![e] = local[t].connected]
    /\ Return(t, op[t], 0, ErrNone, {})
    /\ UNCHANGED <<path, receiver, lock, dataList, closed, nops, closeDone, binds, bindSince, wasFull>>

\* ---------------------------------------------------------- Listen, Accept

Listen(t, o) ==
    /\ Start(t)
    /\ Return(t, o, 0, ErrNotSupported, {})
    /\ UNCHANGED <<path, connected, receiver, lock, dataList, closed, closeDone, binds, bindSince, wasFull>>

Accept(t, o) ==
    /\ Start(t)
    /\ Return(t, o, 0, ErrNotSupported, {})
    /\ UNCHANGED <<path, connected, receiver, lock, dataList, closed, closeDone, binds, bindSince, wasFull>>

\* ------------------------------------------------------------------- Bind

\* Mutant: the check that the endpoint is not bound yet is missing.
BindCheckErrorNoBound(e, addr) ==
    IF addr = NoPath THEN ErrBadLocalAddress ELSE ErrNone

\* The two precondition checks of Bind, in the order the code makes them.
BindCheckError(e, addr) ==
    IF isBound(e) THEN ErrAlreadyBound
    ELSE IF addr = NoPath THEN ErrBadLocalAddress
    ELSE ErrNone

\* e.Lock() and a failing check: the error is returned, the lock released.
BindCheckFail(t, addr, commit) ==
    LET e == op[t].self IN
    /\ At(t, "Bind")
    /\ LockFree(e)
    /\ BindCheckError(e, addr) # ErrNone
    /\ Return(t, [op[t] EXCEPT !.addr = addr, !.commit = commit], 0, BindCheckError(e, addr), {})
    /\ UNCHANGED <<path, connected, receiver, lock, dataList, closed, nops, closeDone, binds, bindSince, wasFull>>

\* e.Lock() and both checks passing: on to `if commit != nil`.
BindCheck(t, addr, commit) ==
    LET e == op[t].self IN
    /\ At(t, "Bind")
    /\ LockFree(e)
    /\ BindCheckError(e, addr) = ErrNone
    /\ lock' = Acquire(e, t)
    /\ op' = [op EXCEPT ![t].addr = addr, ![t].commit = commit]
    /\ Goto(t, IF commit # "nil" THEN "BindCommit" ELSE "BindStore")
    /\ UNCHANGED <<path, connected, receiver, dataList, closed, local, nops, closeDone, binds, bindSince, wasFull>>

\* commit(): the injected callback's result.
CommitError(commit) == IF commit = "fail" THEN ErrCommit ELSE ErrNone

\* Mutant: the address is saved before commit() is called.
BindCommitFailSaved(t) ==
    /\ At(t, "BindCommit")
    /\ CommitError(op[t].commit) # ErrNone
    /\ path' = [path EXCEPT ![op[t].self] = op[t].addr]
    /\ lock' = Release(op[t].self, t)
    /\ Return(t, op[t], 0, CommitError(op[t].commit), {})
    /\ UNCHANGED <<connected, receiver, dataList, closed, nops, closeDone, binds, bindSince, wasFull>>

\* The call of commit() fails: its error is returned.
BindCommitFail(t) ==
    /\ At(t, "BindCommit")
    /\ CommitError(op[t].commit) # ErrNone
    /\ lock' = Release(op[t].self, t)
    /\ Return(t, op[t], 0, CommitError(op[t].commit), {})
    /\ UNCHANGED <<path, connected, receiver, dataList, closed, nops, closeDone, binds, bindSince, wasFull>>

\* The call of commit() succeeds.
BindCommit(t) ==
    /\ At(t, "BindCommit")
    /\ CommitError(op[t].commit) = ErrNone
    /\ Goto(t, "BindStore")
    /\ UNCHANGED <<path, connected, receiver, lock, dataList, closed, op, local, nops, closeDone, binds, bindSince, wasFull>>

\* e.path = string(addr.Addr); return nil
BindStore(t) ==
    LET e == op[t].self IN
    /\ At(t, "BindStore")
    /\ path' = [path EXCEPT ![e] = op[t].addr]
    /\ binds' = [binds EXCEPT ![e] = @ + 1]
    /\ bindSince' = bindSince \cup {e}
    /\ lock' = Release(e, t)
    /\ Return(t, op[t], 0, ErrNone, {})
    /\ UNCHANGED <<connected, receiver, dataList, closed, nops, closeDone, wasFull>>

\* -------------------------------------------------------------- Readiness

\* e.receiver.Readable() is evaluated only when mask has EventIn (&&
\* short-circuits); on a nil receiver it is a call on a nil interface.
ReadinessPanics(e, mask) == EventIn \in mask /\ receiver[e] = NilReceiver

ReadyMask(e, mask) ==
    (IF EventIn \in mask /\ Readable(receiver[e]) THEN {EventIn} ELSE {})
    \cup (IF Connected(e) /\ EventOut \in mask /\ Writable(connected[e])
            THEN {EventOut} ELSE {})

\* Readiness, from e.Lock() to the deferred e.Unlock().
Readiness(t, mask) ==
    LET e == op[t].self IN
    /\ At(t, "Readiness")
    /\ LockFree(e)
    /\ ~ReadinessPanics(e, mask)
    /\ Return(t, [op[t] EXCEPT !.mask = mask], 0, ErrNone, ReadyMask(e, mask))
    /\ UNCHANGED <<path, connected, receiver, lock, dataList, closed, nops, closeDone, binds, bindSince, wasFull>>

ReadinessPanic(t, mask) ==
    LET e == op[t].self IN
    /\ At(t, "Readiness")
    /\ LockFree(e)
    /\ ReadinessPanics(e, mask)
    /\ Return(t, [op[t] EXCEPT !.mask = mask], 0, Panic, {})
    /\ UNCHANGED <<path, connected, receiver, lock, dataList, closed, nops, closeDone, binds, bindSince, wasFull>>

\* ---------------------------------------------------------------- Dequeue

\* The owner of endpoint e reads the oldest pending message from its receive
\* queue (the socket layer's receive path, under e's lock).
Dequeue(e) ==
    /\ ~Crashed
    /\ LockFree(e)
    /\ receiver[e] # NilReceiver
    /\ dataList[receiver[e].readQueue] # <<>>
    /\ dataList' = [dataList EXCEPT ![receiver[e].readQueue] = Tail(@)]
    /\ ret' = NoRet
    /\ UNCHANGED <<path, connected, receiver, lock, closed, pc, op, local, nops, closeDone, binds, bindSince, wasFull>>

\* ------------------------------------------------------------------- Next

Next ==
    \/ \E t \in Threads, o \in LockOps : Call(t, o)
    \/ \E t \in Threads : Close(t)
    \/ \E t \in Threads, o \in SendOps : SendCastFail(t, o)
    \/ \E t \in Threads, o \in SendOps : SendCastPanic(t, o)
    \/ \E t \in Threads, o \in SendOps : SendCast(t, o)
    \/ \E t \in Threads, v \in Views, c \in Controls : SendLock(t, v, c)
    \/ \E t \in Threads : SendSend(t)
    \/ \E t \in Threads, o \in ConnectOps : ConnCastFail(t, o)
    \/ \E t \in Threads, o \in ConnectOps : ConnCastPanic(t, o)
    \/ \E t \in Threads, o \in ConnectOps : ConnCast(t, o)
    \/ \E t \in Threads : ConnStore(t)
    \/ \E t \in Threads, o \in ListenOps : Listen(t, o)
    \/ \E t \in Threads, o \in AcceptOps : Accept(t, o)
    \/ \E t \in Threads, addr \in Addrs, commit \in Commits : BindCheckFail(t, addr, commit)
    \/ \E t \in Threads, addr \in Addrs, commit \in Commits : BindCheck(t, addr, commit)
    \/ \E t \in Threads : BindCommitFail(t)
    \/ \E t \in Threads : BindCommit(t)
    \/ \E t \in Threads : BindStore(t)
    \/ \E t \in Threads, mask \in Masks : Readiness(t, mask)
    \/ \E t \in Threads, mask \in Masks : ReadinessPanic(t, mask)
    \/ \E e \in CLEndpoints : Dequeue(e)

Spec == Init /\ [][Next]_vars

\* --------------------------------------------------------------- fairness

\* The steps of the call thread t is making.  A call that has started goes
\* on: the scheduler runs every goroutine that can run, and a goroutine
\* waiting in e.Lock() gets the mutex once it stays free.
Step(t) ==
    \/ Close(t)
    \/ \E v \in Views, c \in Controls : SendLock(t, v, c)
    \/ SendSend(t)
    \/ ConnStore(t)
    \/ \E addr \in Addrs, commit \in Commits : BindCheckFail(t, addr, commit)
    \/ \E addr \in Addrs, commit \in Commits : BindCheck(t, addr, commit)
    \/ BindCommitFail(t)
    \/ BindCommit(t)
    \/ BindStore(t)
    \/ \E mask \in Masks : Readiness(t, mask)
    \/ \E mask \in Masks : ReadinessPanic(t, mask)

SpecFair == Spec /\ \A t \in Threads : WF_vars(Step(t))

\* ------------------------------------------------------ concurrent senders

\* Every thread makes one SendMsgTo call, of a payload of its own, to
\* endpoint 1, from any endpoint, bound or not; the calls run concurrently.
SenderView(t) == [i \in 1..t |-> 7]

SenderOps == {o \in SendOps : o.to \in {1}}

InitSenders ==
    /\ path \in [CLEndpoints -> Addrs]
    /\ connected = [e \in CLEndpoints |-> NilConnected]
    /\ receiver = [e \in CLEndpoints |-> QueueReceiver(e)]
    /\ lock = [e \in CLEndpoints |-> {}]
    /\ dataList = [q \in Queues |-> <<>>]
    /\ closed = [q \in Queues |-> FALSE]
    /\ pc = [t \in Senders |-> "idle"]
    /\ op = [t \in Senders |-> NoOp]
    /\ local = [t \in Senders |-> NoLocal]
    /\ ret = NoRet
    /\ nops = 0
    /\ closeDone = {}
    /\ binds = [e \in CLEndpoints |-> IF path[e] # NoPath THEN 1 ELSE 0]
    /\ bindSince = {e \in CLEndpoints : path[e] # NoPath}
    /\ wasFull = {}

\* Thread t makes the t-th call; the steps of the calls interleave freely.
NextSenders ==
    \/ \E t \in Senders, o \in SenderOps : nops = t - 1 /\ SendCast(t, o)
    \/ \E t \in Senders, c \in Controls : SendLock(t, SenderView(t), c)
    \/ \E t \in Senders : SendSend(t)

SpecSenders == InitSenders /\ [][NextSenders]_vars

\* --------------------------------------------------------- stamped sends

\* The two threads make successive SendMsgTo calls to endpoint 1, from any
\* endpoint, while the owner of endpoint 1 dequeues.  A call's payload shows
\* who submitted it and when: thread 1 sends 7s and thread 2 sends 8s, as
\* many as calls had started when the call was made, so that a later
\* call of a thread has the longer payload.  Endpoint 1's queue starts with
\* any number of messages of earlier senders, short of its capacity.
StampView(t) == [i \in 1..(nops + 1) |-> 6 + t]

SentBy(m, t) == m.Data # <<>> /\ m.Data[1] = 6 + t

OldQueue(n) == [i \in 1..n |-> NoMessage]

InitStamped ==
    /\ path = [e \in CLEndpoints |-> NoPath]
    /\ connected = [e \in CLEndpoints |-> NilConnected]
    /\ receiver = [e \in CLEndpoints |-> QueueReceiver(e)]
    /\ lock = [e \in CLEndpoints |-> {}]
    /\ \E n \in 0..(QueueLimit - 1) :
          dataList = [q \in Queues |-> IF q = QueueOf(1) THEN OldQueue(n) ELSE <<>>]
    /\ closed = [q \in Queues |-> FALSE]
    /\ pc = [t \in Threads |-> "idle"]
    /\ op = [t \in Threads |-> NoOp]
    /\ local = [t \in Threads |-> NoLocal]
    /\ ret = NoRet
    /\ nops = 0
    /\ closeDone = {}
    /\ binds = [e \in CLEndpoints |-> 0]
    /\ bindSince = {}
    /\ wasFull = {}

NextStamped ==
    \/ \E t \in Threads, o \in SenderOps : SendCast(t, [o EXCEPT !.v = StampView(t)])
    \/ \E t \in Threads, c \in Controls : SendLock(t, op[t].v, c)
    \/ \E t \in Threads : SendSend(t)
    \/ \E e \in CLEndpoints : Dequeue(e)

SpecStamped == InitStamped /\ [][NextStamped]_vars

\* ================================================================ claims

Both == {EventIn, EventOut}

\* C1: when Close returns on an endpoint, whatever its state was (bound or
\* not, with or without a default peer), the endpoint has no peer, no
\* address and no receiver, and its receive queue has been closed.
C1_CloseClearsAll ==
    [][\A t \in Threads :
        (pc[t] = "Close" /\ pc'[t] = "idle" /\ ret'.err = ErrNone) =>
            LET e == op[t].self IN
            /\ connected'[e] = NilConnected
            /\ path'[e] = NoPath
            /\ receiver'[e] = NilReceiver
            /\ closed'[QueueOf(e)]]_vars

\* C2: a Readiness call with both bits requested that is made on an
\* endpoint after a Close of it has returned completes normally, and does
\* not report the writable bit (checked where no peer has been stored since
\* that Close, the case every reading of the claim covers); Listen and
\* Accept return ErrNotSupported.
C2_ReadinessAfterClose ==
    /\ (ret.op.kind = "Readiness" /\ ret.op.afterClose /\ ret.op.mask = Both) =>
            /\ ret.err = ErrNone
            /\ ~Connected(ret.op.self) => EventOut \notin ret.ready
    /\ (ret.op.kind \in {"Listen", "Accept"}) => ret.err = ErrNotSupported

\* C3: a SendMsgTo that fails returns 0 bytes and changes no queue; the
\* error is ErrInvalidEndpointState when the destination is not a
\* ConnectionlessEndpoint, and ErrQueueFull or ErrQueueClosed when the
\* destination's queue is full or closed.
C3_FailedSendDeliversNothing ==
    [][(ret'.op.kind = "SendMsgTo" /\ ret'.err # ErrNone) =>
            /\ ret'.n = 0
            /\ dataList' = dataList
            /\ closed' = closed
            /\ IF IsConnectionless(ret'.op.to)
                 THEN ret'.err \in {ErrQueueFull, ErrQueueClosed}
                 ELSE ret'.err = ErrInvalidEndpointState]_vars

\* C4: a successful SendMsgTo of a payload of length N returns N, appends
\* exactly one message, carrying the whole payload, to the destination's
\* queue, and changes no other queue.
C4_SendAppendsOne ==
    [][(ret'.op.kind = "SendMsgTo" /\ ret'.err = ErrNone) =>
            LET d == QueueOf(ret'.op.to) IN
            /\ ret'.n = Len(ret'.op.v)
            /\ Len(dataList'[d]) = Len(dataList[d]) + 1
            /\ SubSeq(dataList'[d], 1, Len(dataList[d])) = dataList[d]
            /\ dataList'[d][Len(dataList'[d])].Data = ret'.op.v
            /\ dataList'[d][Len(dataList'[d])].Control = ret'.op.c
            /\ \A q \in Queues \ {d} : dataList'[q] = dataList[q]
            /\ closed' = closed]_vars

\* A two-byte payload was sent: the call returned 2 and the message is the
\* newest of the destination's queue.
C4_Witness ==
    /\ ret.op.kind = "SendMsgTo"
    /\ ret.err = ErrNone
    /\ ret.n = Len(ret.op.v)
    /\ Len(ret.op.v) > 1
    /\ dataList[QueueOf(ret.op.to)] # <<>>

\* C5: the message a SendMsgTo enqueues carries the sender's address as it
\* is at the moment of the enqueue: the bound address if the sender is bound
\* then, no address if it is not, whatever Bind and Close calls on the sender
\* run concurrently with the send.
C5_SourceAddressAtEnqueue ==
    [][\A t \in Threads :
        (pc[t] = "SendSend" /\ pc'[t] = "idle" /\ ret'.err = ErrNone) =>
            LET q == local[t].connected.writeQueue
                e == op[t].self
                m == dataList'[q][Len(dataList'[q])] IN
            /\ isBound(e) => m.Address = path[e]
            /\ ~isBound(e) => m.Address = NoPath
            /\ path'[e] = path[e]]_vars

\* A bound sender is about to enqueue its message while another thread's
\* Close of the sender waits for the sender's lock.
C5_Witness ==
    \E t \in Threads, u \in Threads :
        /\ pc[t] = "SendSend"
        /\ isBound(op[t].self)
        /\ pc[u] = "Close"
        /\ op[u].self = op[t].self

\* C6: when every one of N threads has made one SendMsgTo of a message of
\* its own to the same open destination, whose queue has room for N
\* messages, the destination's queue holds exactly those N messages, each
\* once and whole, whatever the interleaving; no other queue holds anything.
SendersDone == nops = NumSenders /\ \A t \in Senders : pc[t] = "idle"

C6_ConcurrentSendersAllDelivered ==
    (SendersDone /\ NumSenders <= QueueLimit) =>
        LET q == dataList[QueueOf(1)] IN
        /\ Len(q) = NumSenders
        /\ \A t \in Senders :
              Cardinality({i \in 1..Len(q) : q[i].Data = SenderView(t)}) = 1
        /\ \A i \in 1..Len(q) : q[i].Control \in Controls /\ q[i].Address \in Addrs
        /\ \A o \in Queues \ {QueueOf(1)} : dataList[o] = <<>>

\* All the senders have returned and the destination holds their messages,
\* the last thread's message ahead of the first thread's.
C6_Witness ==
    /\ SendersDone
    /\ NumSenders <= QueueLimit
    /\ Len(dataList[QueueOf(1)]) = NumSenders
    /\ dataList[QueueOf(1)][1].Data = SenderView(NumSenders)

\* C7: a Bind on an endpoint that is bound fails with ErrAlreadyBound and
\* leaves the address as it is; a Bind of the empty address on an unbound
\* endpoint fails with ErrBadLocalAddress and leaves the endpoint unbound.
\* (A thread leaves step "Bind" by making the two checks under the lock.)
C7_BindPreconditions ==
    [][\A t \in Threads :
        (pc[t] = "Bind" /\ pc'[t] # "Bind") =>
            LET e == op[t].self IN
            /\ isBound(e) =>
                  /\ pc'[t] = "idle"
                  /\ ret'.err = ErrAlreadyBound
                  /\ path' = path
            /\ (~isBound(e) /\ pc'[t] = "idle") =>
                  /\ ret'.op.addr = NoPath
                  /\ ret'.err = ErrBadLocalAddress
                  /\ path' = path
            /\ (~isBound(e) /\ pc'[t] # "idle") => op'[t].addr # NoPath]_vars

\* A Bind of "b" on the endpoint bound to "a" failed with ErrAlreadyBound.
C7_Witness ==
    /\ ret.op.kind = "Bind"
    /\ ret.err = ErrAlreadyBound
    /\ ret.op.addr = "b"
    /\ path[ret.op.self] = "a"

\* C8: commit is called only with the endpoint's lock held and after both
\* checks passed; the address is saved only after commit has succeeded (or
\* there is no commit); if commit fails, Bind returns commit's error, and
\* the endpoint's address, peer and receiver are what they were all through
\* the call.
C8_BindCommit ==
    [][/\ \A t \in Threads :
            pc[t] = "BindCommit" =>
                LET e == op[t].self IN
                /\ lock[e] = {t}
                /\ ~isBound(e)
                /\ op[t].addr # NoPath
                /\ op[t].commit # "nil"
                /\ path'[e] = path[e]
                /\ connected'[e] = connected[e]
                /\ receiver'[e] = receiver[e]
                /\ (pc'[t] # "BindCommit") =>
                      IF op[t].commit = "fail"
                        THEN pc'[t] = "idle" /\ ret'.err = ErrCommit
                        ELSE pc'[t] = "BindStore"
       /\ \A e \in CLEndpoints :
            (path'[e] # path[e] /\ path'[e] # NoPath) =>
                \E t \in Threads :
                    /\ pc[t] = "BindStore"
                    /\ op[t].self = e
                    /\ lock[e] = {t}
                    /\ op[t].commit \in {"nil", "ok"}
                    /\ path'[e] = op[t].addr
                    /\ ret'.err = ErrNone]_vars

\* A Bind whose commit failed returned commit's error on an endpoint that
\* has a peer and is still unbound.
C8_Witness ==
    /\ ret.op.kind = "Bind"
    /\ ret.op.commit = "fail"
    /\ ret.err = ErrCommit
    /\ ~isBound(ret.op.self)
    /\ Connected(ret.op.self)

\* C9: a ConnectEndpoint to an endpoint that is not a ConnectionlessEndpoint
\* fails with ErrConnectionRefused and changes no endpoint's peer, address or
\* receiver: a peer stored before is still the peer.
C9_ConnectRefused ==
    [][/\ (ret'.op.kind = "ConnectEndpoint" /\ ~IsConnectionless(ret'.op.to)) =>
            /\ ret'.err = ErrConnectionRefused
            /\ connected' = connected
            /\ path' = path
            /\ receiver' = receiver
            /\ dataList' = dataList
            /\ closed' = closed
       /\ \A t \in Threads :
            (pc[t] = "idle" /\ pc'[t] = "ConnLock") => IsConnectionless(op'[t].to)]_vars

\* A connect was refused on a bound endpoint that has a peer.
C9_Witness ==
    /\ ret.op.kind = "ConnectEndpoint"
    /\ ret.err = ErrConnectionRefused
    /\ Connected(ret.op.self)
    /\ isBound(ret.op.self)

\* C10: a successful ConnectEndpoint stores as the caller's peer a handle to
\* the target's receive queue, whatever peer was stored before, and changes
\* nothing else: not the caller's address or receiver, not the target's
\* address, peer or receiver, no queue.
C10_ConnectStoresPeer ==
    [][(ret'.op.kind = "ConnectEndpoint" /\ ret'.err = ErrNone) =>
            LET e == ret'.op.self
                to == ret'.op.to IN
            /\ connected'[e] = ConnectedEndpoint(to, QueueOf(to))
            /\ \A x \in CLEndpoints \ {e} : connected'[x] = connected[x]
            /\ path' = path
            /\ receiver' = receiver
            /\ dataList' = dataList
            /\ closed' = closed]_vars

\* Endpoint 1, bound, connected to endpoint 2, which has no peer.
C10_Witness ==
    /\ ret.op.kind = "ConnectEndpoint"
    /\ ret.err = ErrNone
    /\ ret.op.self # ret.op.to
    /\ connected[ret.op.self].writeQueue = QueueOf(ret.op.to)
    /\ ~Connected(ret.op.to)
    /\ isBound(ret.op.self)

\* C11: whenever a call Readiness(mask) is made it returns a mask, which has
\* the readable bit exactly when mask has it and the endpoint's own receive
\* queue holds data, and the writable bit exactly when mask has it, a peer is
\* stored and the peer's target queue has room.
C11_ReadinessExact ==
    (ret.op.kind = "Readiness") =>
        LET e == ret.op.self
            mask == ret.op.mask IN
        /\ ret.err = ErrNone
        /\ (EventIn \in ret.ready) <=>
                (EventIn \in mask /\ Len(dataList[QueueOf(e)]) > 0)
        /\ (EventOut \in ret.ready) <=>
                /\ EventOut \in mask
                /\ Connected(e)
                /\ Len(dataList[connected[e].writeQueue]) < QueueLimit

\* C13: when Close returns, the endpoint is as NewConnectionless makes one:
\* unbound, without a peer, and holding a receive queue that is open.
C13_CloseLeavesFresh ==
    [][\A t \in Threads :
        (pc[t] = "Close" /\ pc'[t] = "idle" /\ ret'.err = ErrNone) =>
            LET e == op[t].self IN
            /\ path'[e] = NoPath
            /\ connected'[e] = NilConnected
            /\ receiver'[e] # NilReceiver
            /\ ~closed'[receiver'[e].readQueue]]_vars

\* C15: UnidirectionalConnect, called on a connectionless endpoint by a
\* SendMsgTo or a ConnectEndpoint that starts, in whatever state the endpoint
\* is, returns a handle to that endpoint's own receive queue, and changes no
\* address, peer, receiver or queue.
C15_UnidirectionalConnectPure ==
    [][\A t \in Threads :
        LET started == IF pc'[t] = "idle" THEN ret'.op ELSE op'[t] IN
        (/\ pc[t] = "idle"
         /\ nops' # nops
         /\ pc'[t] # "idle" \/ ret'.t = t
         /\ started.kind \in {"SendMsgTo", "ConnectEndpoint"}
         /\ IsConnectionless(started.to)) =>
            /\ pc'[t] \in {"SendLock", "ConnLock"}
            /\ local'[t].connected = ConnectedEndpoint(started.to, QueueOf(started.to))
            /\ path' = path
            /\ connected' = connected
            /\ receiver' = receiver
            /\ dataList' = dataList
            /\ closed' = closed]_vars

\* C16: once a Close of endpoint d has returned, no step adds a message to
\* d's receive queue, every SendMsgTo to d that returns has failed with 0
\* bytes, and d's receiver, once absent, stays absent.
C16_ClosedForGood ==
    [][\A d \in closeDone :
        /\ Len(dataList'[QueueOf(d)]) <= Len(dataList[QueueOf(d)])
        /\ (ret'.op.kind = "SendMsgTo" /\ ret'.op.to = d) =>
                (ret'.err \in {ErrQueueClosed, ErrQueueFull} /\ ret'.n = 0)
        /\ (receiver[d] = NilReceiver) => (receiver'[d] = NilReceiver)]_vars

\* C14: every step of a call that reads or writes the address, the peer or
\* the receiver of an endpoint is made with that endpoint's lock held by the
\* calling thread: the thread holds it from an earlier step of the call, or
\* the step starts with e.Lock() on that endpoint and finds the lock free.
\* The steps at "Close", "Bind", "Readiness", "SendLock", "ConnLock" start
\* with e.Lock() on the call's own endpoint; those at "SendSend",
\* "BindCommit", "BindStore" run under it; the first step of a SendMsgTo or a
\* ConnectEndpoint to a connectionless endpoint reads that endpoint's
\* receiver (UnidirectionalConnect).
C14_AccessUnderLock ==
    [][\A t \in Threads :
        LET started == IF pc'[t] = "idle" THEN ret'.op ELSE op'[t] IN
        /\ (pc[t] \in {"Close", "Bind", "Readiness", "SendLock", "ConnLock"}
                /\ pc'[t] # pc[t]) =>
              lock[op[t].self] = {}
        /\ (pc[t] \in {"SendSend", "BindCommit", "BindStore"} /\ pc'[t] # pc[t]) =>
              lock[op[t].self] = {t}
        /\ (/\ pc[t] = "idle"
            /\ nops' # nops
            /\ pc'[t] # "idle" \/ ret'.t = t
            /\ started.kind \in {"SendMsgTo", "ConnectEndpoint"}
            /\ IsConnectionless(started.to)) =>
              lock[started.to] = {t}]_vars

\* C17 as claimed: over the lifetime of an endpoint the address goes from
\* absent to present at most once, no second Bind succeeding, and it is
\* present exactly when a Bind on the endpoint has succeeded.
C17_BoundOnce ==
    [][\A e \in CLEndpoints :
        /\ binds'[e] <= 1
        /\ isBound(e)' <=> (binds'[e] >= 1)]_vars

\* C17 as amended: between the creation of an endpoint or the return of a
\* Close of it and the return of its next Close, the address goes from absent
\* to present at most once, by the one Bind that succeeds, and it is present
\* exactly when a Bind on the endpoint has succeeded since then.
C17_BoundOncePerClose ==
    [][\A e \in CLEndpoints :
        /\ isBound(e)' <=> (e \in bindSince')
        /\ (binds'[e] # binds[e]) =>
              /\ ~isBound(e)
              /\ e \notin bindSince
              /\ isBound(e)'
              /\ ret'.op.kind = "Bind" /\ ret'.op.self = e /\ ret'.err = ErrNone
        /\ (~isBound(e) /\ isBound(e)') => binds'[e] = binds[e] + 1
        /\ (isBound(e) /\ path'[e] # path[e]) =>
              /\ ret'.op.kind = "Close" /\ ret'.op.self = e
              /\ ~isBound(e)']_vars

\* A second Bind has succeeded on an endpoint, after a Close of it.
C17_Witness ==
    \E e \in CLEndpoints :
        /\ binds[e] = 2
        /\ e \in closeDone
        /\ ret.op.kind = "Bind" /\ ret.op.self = e /\ ret.err = ErrNone
        /\ isBound(e)

\* C12: the messages one thread sends to a queue by successive successful
\* SendMsgTo calls are in the queue in the order of their submission, the
\* earlier nearer the head, and messages leave a queue only from its head:
\* they are dequeued in the order they were submitted, whatever the other
\* thread sends in between.
C12_FifoPerSender ==
    [][\A q \in Queues :
        /\ \A t \in Threads : \A i \in 1..Len(dataList'[q]) : \A j \in 1..Len(dataList'[q]) :
              (i < j /\ SentBy(dataList'[q][i], t) /\ SentBy(dataList'[q][j], t)) =>
                  Len(dataList'[q][i].Data) < Len(dataList'[q][j].Data)
        /\ (Len(dataList'[q]) < Len(dataList[q])) => dataList'[q] = Tail(dataList[q])
        /\ (Len(dataList'[q]) >= Len(dataList[q])) =>
              SubSeq(dataList'[q], 1, Len(dataList[q])) = dataList[q]]_vars

\* Endpoint 1's queue holds two messages of thread 1, the earlier first,
\* while thread 2 is in the middle of a send to the same queue.
C12_Witness ==
    /\ Len(dataList[QueueOf(1)]) = 2
    /\ SentBy(dataList[QueueOf(1)][1], 1)
    /\ SentBy(dataList[QueueOf(1)][2], 1)
    /\ Len(dataList[QueueOf(1)][1].Data) < Len(dataList[QueueOf(1)][2].Data)
    /\ pc[2] = "SendSend"

\* C19: no step leaves more messages in a queue than its capacity; a
\* SendMsgTo that reaches an open queue at capacity fails with ErrQueueFull,
\* returns 0 and enqueues nothing, and one that reaches an open queue with
\* room, such as a full queue a message has since been dequeued from,
\* succeeds and adds its message.
C19_NeverOverCapacity ==
    [][/\ \A q \in Queues : Len(dataList'[q]) <= QueueLimit
       /\ \A t \in Threads :
            (pc[t] = "SendSend" /\ pc'[t] = "idle") =>
                LET q == local[t].connected.writeQueue IN
                /\ (~closed[q] /\ Len(dataList[q]) >= QueueLimit) =>
                      /\ ret'.err = ErrQueueFull
                      /\ ret'.n = 0
                      /\ dataList' = dataList
                /\ (~closed[q] /\ Len(dataList[q]) < QueueLimit) =>
                      /\ ret'.err = ErrNone
                      /\ Len(dataList'[q]) = Len(dataList[q]) + 1]_vars

\* A send has succeeded into a queue that had refused an earlier message
\* for want of room and from which a message has since been dequeued: the
\* queue, which started one short of its capacity, is at capacity again and
\* its initial messages are one fewer.
C19_Witness ==
    LET q == dataList[QueueOf(1)] IN
    /\ QueueOf(1) \in wasFull
    /\ ret.op.kind = "SendMsgTo" /\ ret.err = ErrNone /\ ret.n = 3
    /\ Len(q) = QueueLimit
    /\ q[QueueLimit].Data = ret.op.v
    /\ Cardinality({i \in 1..Len(q) : q[i] = NoMessage}) = QueueLimit - 2

\* C20: a queue goes from open to closed only in the step by which a Close
\* of the endpoint that owns it returns, and never back; a Close changes the
\* contents of no queue and the state of no queue but its endpoint's own.
C20_OnlyOwnerCloses ==
    [][/\ \A q \in Queues :
            (closed'[q] # closed[q]) =>
                /\ closed'[q]
                /\ ret'.op.kind = "Close"
                /\ ret'.err = ErrNone
                /\ QueueOf(ret'.op.self) = q
       /\ (ret'.op.kind = "Close") =>
            /\ dataList' = dataList
            /\ \A q \in Queues \ {QueueOf(ret'.op.self)} : closed'[q] = closed[q]]_vars

\* A Close has returned on an endpoint that had a peer: its own queue is
\* closed, while the other endpoint's queue is open and still holds a message.
C20_Witness ==
    \E o \in CLEndpoints :
        /\ ret.op.kind = "Close"
        /\ ret.err = ErrNone
        /\ o # ret.op.self
        /\ receiver[ret.op.self] = NilReceiver
        /\ closed[QueueOf(ret.op.self)]
        /\ ~closed[QueueOf(o)]
        /\ dataList[QueueOf(o)] # <<>>

\* C18: a thread holds no lock but that of the endpoint its call is made on,
\* and none while it waits in e.Lock(), so no call waits for a second lock;
\* and under fair scheduling every call that has started returns.
LocksHeld(t) == {e \in CLEndpoints : t \in lock[e]}

C18_EveryCallReturns ==
    /\ [](\A t \in Threads :
            /\ LocksHeld(t) \subseteq {op[t].self}
            /\ (pc[t] \in {"idle", "Close", "Bind", "Readiness", "SendLock", "ConnLock"}) =>
                  LocksHeld(t) = {})
    /\ \A t \in Threads : (pc[t] # "idle") ~> (pc[t] = "idle" /\ ~Crashed)

====
